---- MODULE Spec2Model ----
(***************************************************************************)
(* Model of the "Process File" run of the Analytics Review Assistant       *)
(* (src/main.py): read the uploaded table, check its columns, parse and    *)
(* partition the dates around the report end date, derive the new          *)
(* campaigns / ad sets / ads, annotate, filter and de-duplicate the recent *)
(* rows, display the table, export it to a highlighted sheet and offer     *)
(* the download.                                                           *)
(***************************************************************************)
EXTENDS Integers, Sequences, FiniteSets, TLC

(* ------------------------------ bounds --------------------------------- *)

\* Largest number of data rows in the uploaded file.
MaxRows == 2

\* Largest number of data rows in an uploaded file of plain rows.
MaxPlainRows == 3

\* Calendar days are 1..MaxDay.
MaxDay == 2

\* Times of day are 0..MaxTod (0 is midnight).
MaxTod == 1

(* --------------------------- input domains ------------------------------ *)

Days == 1..MaxDay

TimesOfDay == 0..MaxTod

\* The report end date picked in the sidebar: a calendar day, early enough
\* that some day lies after it.
ReportEndDates == 1..(MaxDay - 1)

\* A Date cell that pandas cannot parse.
Unparseable == <<"n/a">>

\* A Date cell of the file: <<day, time of day>>, or text that is no date.
DateCells == (Days \X TimesOfDay) \cup {Unparseable}

Channels == {"F", "F_S"}

CampaignShorts == {"X", "S_X"}

AdSets == {"A1", "A2"}

Ads == {"B1", "B2"}

Costs == {10, 20}

MediaSources == {"M"}

CampaignNames == {"C"}

(* ------------------------------ the code -------------------------------- *)

required_columns == <<"Date", "Channel", "Media Source", "Campaign Name", "Campaign Name (Short)", "Ad Set", "Ad Name (Short)", "Cost (USD)">>

Range(s) == {s[i] : i \in 1..Len(s)}

\* One data row of a well-formed uploaded file.
FileRows == {("Date" :> d) @@ ("Channel" :> ch) @@ ("Media Source" :> ms) @@ ("Campaign Name" :> cn) @@ ("Campaign Name (Short)" :> cs) @@ ("Ad Set" :> as) @@ ("Ad Name (Short)" :> ad) @@ ("Cost (USD)" :> co) : d \in DateCells, ch \in Channels, ms \in MediaSources, cn \in CampaignNames, cs \in CampaignShorts, as \in AdSets, ad \in Ads, co \in Costs}

\* The plain rows: a date without a time of day, one campaign name per channel.
PlainRows == {r \in FileRows : Len(r["Date"]) = 2 /\ r["Date"][2] = 0 /\ r["Campaign Name (Short)"] = "X"}

TablesOf(rows, n) == UNION {[1..k -> rows] : k \in 0..n}

\* The uploaded files: the tables of at most MaxRows rows, the tables of at
\* most MaxPlainRows plain rows, and the files that lack some required
\* column (their rows are never read).
UploadedFiles == {[columns |-> Range(required_columns), rows |-> rs] : rs \in TablesOf(FileRows, MaxRows) \cup TablesOf(PlainRows, MaxPlainRows)} \cup {[columns |-> cs, rows |-> <<>>] : cs \in (SUBSET Range(required_columns)) \ {Range(required_columns)}}

\* A DataFrame is a sequence of rows; a row keeps its index label and cells.
read_file(f) == [i \in 1..Len(f.rows) |-> [index |-> i - 1, cells |-> f.rows[i]]]

NaT == <<>>

TicksPerDay == MaxTod + 1

\* Mutant: a value that is no date becomes the epoch instead of NaT.
to_datetime_epoch(v) == IF Len(v) = 2 THEN <<v[1] * TicksPerDay + v[2]>> ELSE <<0>>

\* pd.to_datetime(..., errors='coerce'): a timestamp (ticks since the epoch,
\* time of day kept), or NaT for a value that is no date.
to_datetime(v) == IF Len(v) = 2 THEN <<v[1] * TicksPerDay + v[2]>> ELSE NaT

\* pd.to_datetime(report_end_date): the date at midnight.
cutoff_timestamp(d) == to_datetime(<<d, 0>>)

IsNull(ts) == ts = NaT

\* df['Date'] = pd.to_datetime(df['Date'], errors='coerce')
parse_dates(frame) == [i \in 1..Len(frame) |-> [frame[i] EXCEPT !.cells["Date"] = to_datetime(@)]]

\* df['Date'].isnull().any()
any_null_date(frame) == \E i \in 1..Len(frame) : IsNull(frame[i].cells["Date"])

NotNullDate(r) == ~IsNull(r.cells["Date"])

\* df.dropna(subset=['Date'])
dropna(frame) == SelectSeq(frame, NotNullDate)

\* Mutant: the historical partition takes the dates strictly before the cutoff.
before_rows_strict(frame, end_date) == LET Before(r) == r.cells["Date"][1] < cutoff_timestamp(end_date)[1] IN SelectSeq(frame, Before)

\* df[df['Date'] <= pd.to_datetime(report_end_date)]
before_rows(frame, end_date) == LET AtOrBefore(r) == r.cells["Date"][1] <= cutoff_timestamp(end_date)[1] IN SelectSeq(frame, AtOrBefore)

\* df[df['Date'] > pd.to_datetime(report_end_date)]
after_rows(frame, end_date) == LET After(r) == r.cells["Date"][1] > cutoff_timestamp(end_date)[1] IN SelectSeq(frame, After)

\* Mutant: the campaign key leaves the channel out.
campaign_key_short_only(cells) == cells["Campaign Name (Short)"]

\* x['Channel'] + "_" + x['Campaign Name (Short)']
campaign_key(cells) == cells["Channel"] \o "_" \o cells["Campaign Name (Short)"]

campaign_keys(frame) == {campaign_key(frame[i].cells) : i \in 1..Len(frame)}

adset_keys(frame) == {frame[i].cells["Ad Set"] : i \in 1..Len(frame)}

ad_keys(frame) == {frame[i].cells["Ad Name (Short)"] : i \in 1..Len(frame)}

\* new_X = after_X - existing_X
new_entities(after_keys, existing_keys) == after_keys \ existing_keys

status_of(key, new_keys) == IF key \in new_keys THEN "New" ELSE "Existing"

\* display_df: the six copied columns of after_df and the three statuses.
annotate(frame, newc, newas, newad) == [i \in 1..Len(frame) |-> [index |-> frame[i].index, cells |-> ("Channel" :> frame[i].cells["Channel"]) @@ ("Media Source" :> frame[i].cells["Media Source"]) @@ ("Campaign Name (Short)" :> frame[i].cells["Campaign Name (Short)"]) @@ ("Ad Set" :> frame[i].cells["Ad Set"]) @@ ("Ad Name (Short)" :> frame[i].cells["Ad Name (Short)"]) @@ ("Cost (USD)" :> frame[i].cells["Cost (USD)"]) @@ ("Campaign Status" :> status_of(campaign_key(frame[i].cells), newc)) @@ ("Ad Set Status" :> status_of(frame[i].cells["Ad Set"], newas)) @@ ("Ad Status" :> status_of(frame[i].cells["Ad Name (Short)"], newad))]]

\* Mutant: the filter asks for all three statuses to be "New".
AnyNew_all(r) == r.cells["Campaign Status"] = "New" /\ r.cells["Ad Set Status"] = "New" /\ r.cells["Ad Status"] = "New"

AnyNew(r) == r.cells["Campaign Status"] = "New" \/ r.cells["Ad Set Status"] = "New" \/ r.cells["Ad Status"] = "New"

\* display_df[(Campaign Status == 'New') | (Ad Set Status == 'New') | (Ad Status == 'New')]
filter_new(frame) == SelectSeq(frame, AnyNew)

\* The column order of final_df.
final_columns == <<"Media Source", "Channel", "Campaign Status", "Campaign (Short)", "Ad Set Status", "Ad Set", "Ad Status", "Ad", "Cost (USD)">>

\* The old name of each column of final_df (rename).
renamed_from(c) == IF c = "Campaign (Short)" THEN "Campaign Name (Short)" ELSE IF c = "Ad" THEN "Ad Name (Short)" ELSE c

\* final_df.rename(...) followed by the column selection.
rename_and_arrange(frame) == [i \in 1..Len(frame) |-> [index |-> frame[i].index, cells |-> [c \in Range(final_columns) |-> frame[i].cells[renamed_from(c)]]]]

\* Mutant: duplicates are decided on the campaign alone.
dedup_subset_campaign == {"Channel", "Campaign (Short)"}

dedup_subset == {"Channel", "Campaign (Short)", "Ad Set", "Ad"}

SameOn(subset, a, b) == \A c \in subset : a.cells[c] = b.cells[c]

\* Mutant: keep='last', the last row of each combination.
drop_duplicates_keep_last(frame, subset) == LET Last(k) == \A j \in (k + 1)..Len(frame) : ~SameOn(subset, frame[j], frame[k]) kept[k \in 0..Len(frame)] == IF k = 0 THEN <<>> ELSE IF Last(k) THEN Append(kept[k - 1], frame[k]) ELSE kept[k - 1] IN kept[Len(frame)]

\* DataFrame.drop_duplicates(subset=...): the first row of each combination.
drop_duplicates(frame, subset) == LET kept[k \in 0..Len(frame)] == IF k = 0 THEN <<>> ELSE IF \E j \in 1..Len(kept[k - 1]) : SameOn(subset, kept[k - 1][j], frame[k]) THEN kept[k - 1] ELSE Append(kept[k - 1], frame[k]) IN kept[Len(frame)]

color_status(val) == IF val = "New" THEN "background-color: #2e8b57; color: white" ELSE "background-color: #808080; color: white"

status_columns == {"Campaign Status", "Ad Set Status", "Ad Status"}

\* final_df.style.applymap(color_status, subset=[the three status columns])
styled(frame) == [i \in 1..Len(frame) |-> [index |-> frame[i].index, cells |-> frame[i].cells, style |-> [c \in status_columns |-> color_status(frame[i].cells[c])]]]

(* ------------------------------ export ---------------------------------- *)

\* Zero-based sheet columns written by the three highlighting loops.
CampaignStatusCol == 2

AdSetStatusCol == 4

AdStatusCol == 6

\* enumerate(..., start=1): the sheet row of the first data row.
FirstDataRow == 1

new_format == [bg_color |-> "#2e8b57", font_color |-> "white"]

existing_format == [bg_color |-> "#808080", font_color |-> "white"]

header_format == [bold |-> TRUE]

no_format == [bold |-> FALSE]

EmptySheet == [p \in {} |-> no_format]

\* worksheet.write(row, col, value, format): sets one cell, replacing what it held.
worksheet_write(ws, row, col, value, fmt) == [p \in (DOMAIN ws) \cup {<<row, col>>} |-> IF p = <<row, col>> THEN [value |-> value, format |-> fmt] ELSE ws[p]]

\* final_df.to_excel(writer, index=False): the header in row 0, then the rows
\* of the frame in their order, one sheet column per frame column.
to_excel(frame) == [p \in (0..Len(frame)) \X (0..(Len(final_columns) - 1)) |-> IF p[1] = 0 THEN [value |-> final_columns[p[2] + 1], format |-> header_format] ELSE [value |-> frame[p[1]].cells[final_columns[p[2] + 1]], format |-> no_format]]

format_to_apply(value) == IF value = "New" THEN new_format ELSE existing_format

\* Mutant: the sheet row is taken from the row's index label, not its position.
highlight_by_index(ws, frame, column, col) == LET done[k \in 0..Len(frame)] == IF k = 0 THEN ws ELSE worksheet_write(done[k - 1], frame[k].index + FirstDataRow, col, frame[k].cells[column], format_to_apply(frame[k].cells[column])) IN done[Len(frame)]

\* for row_num, value in enumerate(final_df[column].values, start=1):
\*     worksheet.write(row_num, col, value, format_to_apply)
highlight(ws, frame, column, col) == LET done[k \in 0..Len(frame)] == IF k = 0 THEN ws ELSE worksheet_write(done[k - 1], (k - 1) + FirstDataRow, col, frame[k].cells[column], format_to_apply(frame[k].cells[column])) IN done[Len(frame)]

\* The sheet when the ExcelWriter block ends.
export_sheet(frame) == highlight(highlight(highlight(to_excel(frame), frame, "Campaign Status", CampaignStatusCol), frame, "Ad Set Status", AdSetStatusCol), frame, "Ad Status", AdStatusCol)

(* ------------------------------ the state ------------------------------- *)

VARIABLES uploaded_file, report_end_date, pc, df, warnings, errors, before_df, after_df, new_campaigns, new_adsets, new_ads, display_df, final_df, table, sheet, download

vars == <<uploaded_file, report_end_date, pc, df, warnings, errors, before_df, after_df, new_campaigns, new_adsets, new_ads, display_df, final_df, table, sheet, download>>

inputs == <<uploaded_file, report_end_date>>

frames == <<before_df, after_df, new_campaigns, new_adsets, new_ads, display_df, final_df>>

outputs == <<table, sheet, download>>

NotShown == [shown |-> FALSE, rows |-> <<>>]

NotOffered == [offered |-> FALSE, data |-> EmptySheet]

\* The "Process File" button has just been clicked with a file uploaded.
Init == /\ uploaded_file \in UploadedFiles
        /\ report_end_date \in ReportEndDates
        /\ pc = "clicked"
        /\ df = <<>>
        /\ warnings = <<>>
        /\ errors = <<>>
        /\ before_df = <<>>
        /\ after_df = <<>>
        /\ new_campaigns = {}
        /\ new_adsets = {}
        /\ new_ads = {}
        /\ display_df = <<>>
        /\ final_df = <<>>
        /\ table = NotShown
        /\ sheet = EmptySheet
        /\ download = NotOffered

\* st.error(f"Uploaded file must contain the following columns: {', '.join(required_columns)}")
columns_error == [text |-> "Uploaded file must contain the following columns: ", columns |-> required_columns]

\* st.error(f"An error occurred while processing the file: {e}")
processing_error(e) == [text |-> "An error occurred while processing the file: ", cause |-> e]

date_warning == "Some dates could not be parsed and will be ignored."

\* except Exception as e: st.error(...)
Raise(e) == /\ errors' = Append(errors, processing_error(e))
            /\ pc' = "done"

\* pd.read_csv / pd.read_excel
ReadFile == /\ pc = "clicked"
            /\ df' = read_file(uploaded_file)
            /\ pc' = "read"
            /\ UNCHANGED <<inputs, warnings, errors, frames, outputs>>

\* The file cannot be read: the exception reaches the handler.
ReadFileFails == /\ pc = "clicked"
                 /\ Raise("read")
                 /\ UNCHANGED <<inputs, df, warnings, frames, outputs>>

\* Mutant: any() in place of all().
any_required_present(columns) == \E i \in 1..Len(required_columns) : required_columns[i] \in columns

all_required_present(columns) == \A i \in 1..Len(required_columns) : required_columns[i] \in columns

\* if not all(col in df.columns for col in required_columns): st.error(...)
CheckColumns == /\ pc = "read"
                /\ IF all_required_present(uploaded_file.columns) THEN pc' = "validated" /\ errors' = errors ELSE pc' = "done" /\ errors' = Append(errors, columns_error)
                /\ UNCHANGED <<inputs, df, warnings, frames, outputs>>

\* Parse the Date column, warn when a date is null, drop the null rows.
ParseDates == /\ pc = "validated"
              /\ warnings' = IF any_null_date(parse_dates(df)) THEN Append(warnings, date_warning) ELSE warnings
              /\ df' = dropna(parse_dates(df))
              /\ pc' = "parsed"
              /\ UNCHANGED <<inputs, errors, frames, outputs>>

\* Split the rows at the report end date.
SplitByDate == /\ pc = "parsed"
               /\ before_df' = before_rows(df, report_end_date)
               /\ after_df' = after_rows(df, report_end_date)
               /\ pc' = "split"
               /\ UNCHANGED <<inputs, df, warnings, errors, new_campaigns, new_adsets, new_ads, display_df, final_df, outputs>>

existing_campaigns == campaign_keys(before_df)

existing_adsets == adset_keys(before_df)

existing_ads == ad_keys(before_df)

after_campaigns == campaign_keys(after_df)

after_adsets == adset_keys(after_df)

after_ads == ad_keys(after_df)

\* The new key sets and the status columns of display_df.
Classify == /\ pc = "split"
            /\ new_campaigns' = new_entities(after_campaigns, existing_campaigns)
            /\ new_adsets' = new_entities(after_adsets, existing_adsets)
            /\ new_ads' = new_entities(after_ads, existing_ads)
            /\ display_df' = annotate(after_df, new_campaigns', new_adsets', new_ads')
            /\ pc' = "classified"
            /\ UNCHANGED <<inputs, df, warnings, errors, before_df, after_df, final_df, outputs>>

\* Filter on the statuses, rename, rearrange, drop the duplicates.
FilterAndDedup == /\ pc = "classified"
                  /\ final_df' = drop_duplicates(rename_and_arrange(filter_new(display_df)), dedup_subset)
                  /\ pc' = "final"
                  /\ UNCHANGED <<inputs, df, warnings, errors, before_df, after_df, new_campaigns, new_adsets, new_ads, display_df, outputs>>

\* st.table(styled_df)
Display == /\ pc = "final"
           /\ table' = [shown |-> TRUE, rows |-> styled(final_df)]
           /\ pc' = "displayed"
           /\ UNCHANGED <<inputs, df, warnings, errors, frames, sheet, download>>

\* An exception between the column check and the display of the table.
ProcessingFails == /\ pc \in {"validated", "parsed", "split", "classified", "final"}
                   /\ Raise("processing")
                   /\ UNCHANGED <<inputs, df, warnings, frames, outputs>>

\* The ExcelWriter block: to_excel and the three highlighting loops.
Export == /\ pc = "displayed"
          /\ sheet' = export_sheet(final_df)
          /\ pc' = "exported"
          /\ UNCHANGED <<inputs, df, warnings, errors, frames, table, download>>

\* Mutant: the download button is rendered although the export failed.
ExportFails_offering_download == /\ pc \in {"displayed", "exported"}
                                 /\ sheet' = sheet
                                 /\ download' = [offered |-> TRUE, data |-> sheet]
                                 /\ errors' = Append(errors, [text |-> "An error occurred while processing the file: ", cause |-> "export"])
                                 /\ pc' = "done"
                                 /\ UNCHANGED <<uploaded_file, report_end_date, df, warnings, before_df, after_df, new_campaigns, new_adsets, new_ads, display_df, final_df, table>>

\* An exception while the workbook is written or the download is offered.
ExportFails == /\ pc \in {"displayed", "exported"}
               /\ sheet' \in IF pc = "displayed" THEN {sheet, to_excel(final_df)} ELSE {sheet}
               /\ Raise("export")
               /\ UNCHANGED <<inputs, df, warnings, frames, table, download>>

\* st.download_button(..., data=output, ...)
Download == /\ pc = "exported"
            /\ download' = [offered |-> TRUE, data |-> sheet]
            /\ pc' = "done"
            /\ UNCHANGED <<inputs, df, warnings, errors, frames, table, sheet>>

Next == \/ ReadFile
        \/ ReadFileFails
        \/ CheckColumns
        \/ ParseDates
        \/ SplitByDate
        \/ Classify
        \/ FilterAndDedup
        \/ Display
        \/ ProcessingFails
        \/ Export
        \/ ExportFails
        \/ Download

Spec == Init /\ [][Next]_vars

(* ---------------------------- properties -------------------------------- *)

\* The stages at which each intermediate result has been computed.
Parsed == pc \in {"parsed", "split", "classified", "final", "displayed", "exported"} \/ (pc = "done" /\ table.shown)

Partitioned == pc \in {"split", "classified", "final", "displayed", "exported"} \/ (pc = "done" /\ table.shown)

Classified == pc \in {"classified", "final", "displayed", "exported"} \/ (pc = "done" /\ table.shown)

Filtered == pc \in {"final", "displayed", "exported"} \/ (pc = "done" /\ table.shown)

Exported == pc = "exported" \/ (pc = "done" /\ download.offered)

StatusNames == {"Campaign Status", "Ad Set Status", "Ad Status"}

HasNew(cells) == \E c \in StatusNames : cells[c] = "New"

SameStatuses(a, b) == \A c \in StatusNames : a[c] = b[c]

\* A row of display_df and a row of final_df name the same entity combination.
SameCombination(d, f) == d["Channel"] = f["Channel"] /\ d["Campaign Name (Short)"] = f["Campaign (Short)"] /\ d["Ad Set"] = f["Ad Set"] /\ d["Ad Name (Short)"] = f["Ad"]

\* Two rows of display_df name the same entity combination.
SameEntities(a, b) == a["Channel"] = b["Channel"] /\ a["Campaign Name (Short)"] = b["Campaign Name (Short)"] /\ a["Ad Set"] = b["Ad Set"] /\ a["Ad Name (Short)"] = b["Ad Name (Short)"]

InFrame(frame, index) == \E k \in 1..Len(frame) : frame[k].index = index

OnceInFrame(frame, index) == Cardinality({k \in 1..Len(frame) : frame[k].index = index}) = 1

InOutput(index) == InFrame(final_df, index)

DisplayRows == 1..Len(display_df)

OutputRows == 1..Len(final_df)

\* The retained recent rows: the rows of display_df with a "New" status.
Retained(i) == HasNew(display_df[i].cells)

\* Output row k stands for recent row i: same combination, same statuses.
StandsFor(k, i) == SameCombination(display_df[i].cells, final_df[k].cells) /\ SameStatuses(display_df[i].cells, final_df[k].cells)

NoEarlierTwin(i) == \A j \in 1..(i - 1) : ~SameEntities(display_df[j].cells, display_df[i].cells)

C1_Row(i) ==
  /\ ~Retained(i) => ~InOutput(display_df[i].index)
  /\ Retained(i) => \E k \in OutputRows : StandsFor(k, i)
  /\ (Retained(i) /\ NoEarlierTwin(i)) => InOutput(display_df[i].index)

\* C1: every output row has at least one status "New"; a recent row whose
\* three statuses are all "Existing" contributes no output row; a recent row
\* with at least one "New" status is retained: the output has a row of its
\* combination with its statuses, and that row is the recent row itself
\* unless an earlier recent row has the same combination.
C1_FilterKeepsExactlyRowsWithNew == Filtered => ((\A k \in OutputRows : HasNew(final_df[k].cells)) /\ (\A i \in DisplayRows : C1_Row(i)))

\* A run in which one recent row is dropped with three "Existing" statuses
\* and another is kept with campaign "New", ad set and ad "Existing".
C1_Witness ==
  /\ Filtered
  /\ \E i \in DisplayRows : ~Retained(i)
  /\ \E k \in OutputRows : final_df[k].cells["Campaign Status"] = "New" /\ final_df[k].cells["Ad Set Status"] = "Existing" /\ final_df[k].cells["Ad Status"] = "Existing"

\* The key of a row for each key type, as the data model defines it.
KeyOf(X, cells) == IF X = "campaign" THEN cells["Channel"] \o "_" \o cells["Campaign Name (Short)"] ELSE IF X = "ad_set" THEN cells["Ad Set"] ELSE cells["Ad Name (Short)"]

KeyTypes == {"campaign", "ad_set", "ad"}

StatusColumn(X) == IF X = "campaign" THEN "Campaign Status" ELSE IF X = "ad_set" THEN "Ad Set Status" ELSE "Ad Status"

NewSet(X) == IF X = "campaign" THEN new_campaigns ELSE IF X = "ad_set" THEN new_adsets ELSE new_ads

KeysIn(X, frame) == {KeyOf(X, frame[i].cells) : i \in 1..Len(frame)}

InHistory(X, key) == \E j \in 1..Len(before_df) : KeyOf(X, before_df[j].cells) = key

C2_Sets(X) ==
  /\ NewSet(X) = KeysIn(X, after_df) \ KeysIn(X, before_df)
  /\ NewSet(X) \subseteq KeysIn(X, after_df)
  /\ NewSet(X) \cap KeysIn(X, before_df) = {}

C2_Status(X, i) ==
  /\ display_df[i].index = after_df[i].index
  /\ display_df[i].cells[StatusColumn(X)] \in {"New", "Existing"}
  /\ (display_df[i].cells[StatusColumn(X)] = "New") <=> (KeyOf(X, after_df[i].cells) \in NewSet(X))
  /\ (display_df[i].cells[StatusColumn(X)] = "New") <=> ~InHistory(X, KeyOf(X, after_df[i].cells))

\* C2: for each key type X, new_X is keys(recent) minus keys(historical), a
\* subset of the recent keys that shares no element with the historical
\* keys; and every recent row's status_X is "New" exactly when its own key_X
\* is in new_X, that is when no historical row has that key, and "Existing"
\* otherwise.
C2_NewSetsAndStatuses == Classified => (Len(display_df) = Len(after_df) /\ (\A X \in KeyTypes : C2_Sets(X) /\ (\A i \in 1..Len(after_df) : C2_Status(X, i))))

\* A recent row whose ad set is new while its campaign and its ad are not.
C2_Witness ==
  /\ Classified
  /\ \E i \in DisplayRows : display_df[i].cells["Campaign Status"] = "Existing" /\ display_df[i].cells["Ad Set Status"] = "New" /\ display_df[i].cells["Ad Status"] = "Existing"

FirstRetained(i) == Retained(i) /\ (\A j \in 1..(i - 1) : ~(Retained(j) /\ SameEntities(display_df[j].cells, display_df[i].cells)))

DistinctCombinations(k, l) == \E c \in {"Channel", "Campaign (Short)", "Ad Set", "Ad"} : final_df[k].cells[c] # final_df[l].cells[c]

\* Output row k is recent row i with the cost the uploaded file gives it.
IsRow(k, i) ==
  /\ SameCombination(display_df[i].cells, final_df[k].cells)
  /\ final_df[k].index = display_df[i].index
  /\ final_df[k].cells["Cost (USD)"] = uploaded_file.rows[display_df[i].index + 1]["Cost (USD)"]

C3_Row(i) ==
  /\ Cardinality({k \in OutputRows : SameCombination(display_df[i].cells, final_df[k].cells)}) = 1
  /\ \E k \in OutputRows : IsRow(k, i)

\* C3: no two output rows share (channel, campaign_short, ad_set, ad); each
\* combination among the retained recent rows has exactly one output row,
\* which is the first retained row of that combination in input order and
\* carries that row's cost as the uploaded file gives it.
C3_OneRowPerCombination ==
  Filtered => ((\A k \in OutputRows : \A l \in OutputRows : (k # l) => DistinctCombinations(k, l)) /\ (\A i \in DisplayRows : FirstRetained(i) => C3_Row(i)) /\ (\A k \in OutputRows : \E i \in DisplayRows : FirstRetained(i) /\ final_df[k].index = display_df[i].index))

TwinsWithCosts(i, j) == i < j /\ Retained(i) /\ SameEntities(display_df[i].cells, display_df[j].cells) /\ display_df[i].cells["Cost (USD)"] # display_df[j].cells["Cost (USD)"]

\* Two retained rows of one combination with different costs, one output row.
C3_Witness ==
  /\ Filtered
  /\ \E i \in DisplayRows : \E j \in DisplayRows : TwinsWithCosts(i, j)
  /\ Len(final_df) = 1

FileRowIds == 1..Len(uploaded_file.rows)

DateCell(i) == uploaded_file.rows[i]["Date"]

Parseable(i) == DateCell(i) \in Days \X TimesOfDay

\* The Date value of file row i is at or before midnight of the report end date.
AtOrBeforeCutoff(i) == DateCell(i)[1] < report_end_date \/ (DateCell(i)[1] = report_end_date /\ DateCell(i)[2] = 0)

C4_Row(i) ==
  /\ InFrame(before_df, i - 1) # InFrame(after_df, i - 1)
  /\ AtOrBeforeCutoff(i) => OnceInFrame(before_df, i - 1)
  /\ ~AtOrBeforeCutoff(i) => OnceInFrame(after_df, i - 1)
  /\ (DateCell(i) = <<report_end_date, 0>>) => (InFrame(before_df, i - 1) /\ ~InFrame(after_df, i - 1))

OnCutoffDay(i) == Parseable(i) /\ DateCell(i)[1] = report_end_date

C5_Row(i) ==
  /\ InFrame(before_df, i - 1)
  /\ ~InFrame(after_df, i - 1)
  /\ \A X \in KeyTypes : KeyOf(X, uploaded_file.rows[i]) \notin NewSet(X)

\* C5: the comparison is by calendar date alone: a record on the cutoff
\* calendar day, whatever its time of day, is historical and not recent, and
\* its keys are not new.
C5_DateOnlyComparison == Partitioned => (\A i \in FileRowIds : OnCutoffDay(i) => C5_Row(i))

BadRows == {i \in FileRowIds : ~Parseable(i)}

KeysOfRows(X, ids) == {KeyOf(X, uploaded_file.rows[m]) : m \in ids}

C8_Row(i) ==
  /\ ~InFrame(df, i - 1)
  /\ ~InFrame(before_df, i - 1)
  /\ ~InFrame(after_df, i - 1)
  /\ ~InFrame(display_df, i - 1)
  /\ ~InFrame(final_df, i - 1)
  /\ ~InFrame(table.rows, i - 1)

C8_Keys(X) ==
  /\ KeysIn(X, before_df) = KeysOfRows(X, {j \in FileRowIds \ BadRows : AtOrBeforeCutoff(j)})
  /\ KeysIn(X, after_df) = KeysOfRows(X, {j \in FileRowIds \ BadRows : ~AtOrBeforeCutoff(j)})
  /\ NewSet(X) \subseteq KeysOfRows(X, FileRowIds \ BadRows)

C8_Warning == Len(warnings) = (IF BadRows # {} THEN 1 ELSE 0)

\* C8: a row whose date cannot be parsed is in neither partition, gives no
\* key to any key set and is in no later table; the date warning is raised
\* once when some row is bad, however many are, and not at all otherwise.
C8_UnparseableRowsDropped ==
  /\ Len(warnings) <= 1
  /\ Parsed => (C8_Warning /\ (\A i \in BadRows : C8_Row(i)))
  /\ Partitioned => (\A X \in KeyTypes : C8_Keys(X))

\* A finished run on a file with two bad rows: one warning.
C8_Witness ==
  /\ pc = "done"
  /\ download.offered
  /\ Cardinality(BadRows) = 2
  /\ Len(warnings) = 1

MissingColumns == Range(required_columns) \ uploaded_file.columns

\* The run ended at the column check (the file itself was readable).
SchemaRejected == pc = "done" /\ MissingColumns # {} /\ (\A k \in 1..Len(errors) : errors[k] # processing_error("read"))

NothingProduced == ~table.shown /\ ~download.offered /\ sheet = EmptySheet

ClassificationNotRun == pc \in {"clicked", "read", "done"} /\ display_df = <<>> /\ final_df = <<>>

\* C6 as stated: with a required column missing, classification does not
\* run, nothing is shown or exported, and exactly one error is surfaced,
\* naming the missing columns and only those.
C6_ErrorNamesMissingColumns ==
  /\ (MissingColumns # {}) => (ClassificationNotRun /\ NothingProduced)
  /\ SchemaRejected => (Len(errors) = 1 /\ errors[1].text = columns_error.text /\ Range(errors[1].columns) = MissingColumns)

\* C6 amended: with a required column missing, classification does not run,
\* nothing is shown or exported, and exactly one error is surfaced, whose
\* text lists all eight required columns in their order.
C6_ErrorListsRequiredColumns ==
  /\ (MissingColumns # {}) => (ClassificationNotRun /\ NothingProduced)
  /\ SchemaRejected => (Len(errors) = 1 /\ errors[1].text = columns_error.text /\ errors[1].columns = <<"Date", "Channel", "Media Source", "Campaign Name", "Campaign Name (Short)", "Ad Set", "Ad Name (Short)", "Cost (USD)">>)

\* A file that lacks exactly one required column has been rejected.
C6_Witness ==
  /\ SchemaRejected
  /\ Cardinality(MissingColumns) = 1
  /\ Len(errors) = 1

Failed == pc = "done" /\ errors # <<>>

\* C7 as stated: a failure at any stage ends the invocation with exactly one
\* error message, no result table shown and no download offered.
C7_FailureLeavesNoArtifacts == Failed => (Len(errors) = 1 /\ ~table.shown /\ ~download.offered)

\* C7 amended: a failure at any stage ends the invocation with exactly one
\* error message and no download offered; no result table has been shown
\* when the failure is in reading, the column check or classification, and
\* the table has been shown exactly when the failure is in the export.
C7_FailureOffersNoDownload ==
  /\ Len(errors) <= 1
  /\ Failed => (Len(errors) = 1 /\ ~download.offered /\ (table.shown <=> (errors[1] = processing_error("export"))))
  /\ (pc = "done" /\ errors = <<>>) => (table.shown /\ download.offered)

\* The export failed after a table with rows was shown.
C7_Witness ==
  /\ Failed
  /\ errors[1] = processing_error("export")
  /\ table.shown
  /\ Len(table.rows) > 0

\* The header texts of the exported columns: media_source, channel,
\* campaign_status, campaign_short, ad_set_status, ad_set, ad_status, ad, cost.
ExportedColumns == <<"Media Source", "Channel", "Campaign Status", "Campaign (Short)", "Ad Set Status", "Ad Set", "Ad Status", "Ad", "Cost (USD)">>

\* The input column an exported column is taken from (none for a status).
InputColumn(c) == IF c = "Campaign (Short)" THEN "Campaign Name (Short)" ELSE IF c = "Ad" THEN "Ad Name (Short)" ELSE c

StatusCell(value) == [value |-> value, format |-> IF value = "New" THEN [bg_color |-> "#2e8b57", font_color |-> "white"] ELSE [bg_color |-> "#808080", font_color |-> "white"]]

GreenStyle == "background-color: #2e8b57; color: white"

C9_PlainCell(i, c) ==
  /\ sheet[<<i, c>>].value = final_df[i].cells[ExportedColumns[c + 1]]
  /\ sheet[<<i, c>>].value = uploaded_file.rows[final_df[i].index + 1][InputColumn(ExportedColumns[c + 1])]

C9_Row(i) ==
  /\ sheet[<<i, 2>>] = StatusCell(final_df[i].cells["Campaign Status"])
  /\ sheet[<<i, 4>>] = StatusCell(final_df[i].cells["Ad Set Status"])
  /\ sheet[<<i, 6>>] = StatusCell(final_df[i].cells["Ad Status"])
  /\ \A c \in {0, 1, 3, 5, 7, 8} : C9_PlainCell(i, c)
  /\ \A c \in 0..8 : sheet[<<i, c>>].value = table.rows[i].cells[ExportedColumns[c + 1]]
  /\ \A c \in {2, 4, 6} : (sheet[<<i, c>>].format.bg_color = "#2e8b57") <=> (table.rows[i].style[ExportedColumns[c + 1]] = GreenStyle)

\* C9: the sheet has the nine columns in order; row i + 1 holds output row i,
\* its cells 2, 4 and 6 the row's campaign, ad set and ad status formatted
\* as New or Existing by their value, every other cell the value to_excel
\* wrote (the input row's value); no cell lies outside the table; and the
\* sheet shows what the displayed table shows.
C9_SheetMirrorsTable ==
  Exported => (DOMAIN sheet = (0..Len(final_df)) \X (0..8) /\ (\A c \in 0..8 : sheet[<<0, c>>].value = ExportedColumns[c + 1]) /\ Len(table.rows) = Len(final_df) /\ (\A i \in OutputRows : C9_Row(i)) /\ (download.offered => download.data = sheet))

\* An exported sheet of two rows that differ in every status.
C9_Witness ==
  /\ Exported
  /\ Len(final_df) = 2
  /\ \A c \in StatusNames : final_df[1].cells[c] # final_df[2].cells[c]

KeyOfOutput(X, cells) == IF X = "campaign" THEN cells["Channel"] \o "_" \o cells["Campaign (Short)"] ELSE IF X = "ad_set" THEN cells["Ad Set"] ELSE cells["Ad"]

Reported(X, key) == \E k \in OutputRows : KeyOfOutput(X, final_df[k].cells) = key /\ final_df[k].cells[StatusColumn(X)] = "New"

Discarded(i) == Retained(i) /\ ~InOutput(display_df[i].index)

\* C10: for every key type X and every key of new_X the output has a row with
\* that key and status_X "New"; and every retained row discarded as a
\* duplicate has the three statuses of the output row of its combination.
C10_NoNewEntityLost ==
  Filtered => ((\A X \in KeyTypes : \A key \in NewSet(X) : Reported(X, key)) /\ (\A i \in DisplayRows : Discarded(i) => (\E k \in OutputRows : StandsFor(k, i))))

\* A duplicate with mixed statuses has been discarded.
C10_Witness ==
  /\ Filtered
  /\ \E i \in DisplayRows : Discarded(i) /\ (\E c \in StatusNames : display_df[i].cells[c] = "Existing")
  /\ new_campaigns \cup new_adsets \cup new_ads # {}

====
